---- MODULE Spec2Model ----
(***************************************************************************)
(* BlackRoad Project Management: the SQLite-backed store of projects,      *)
(* tasks and dependency edges (src/src/project_management.py), its         *)
(* critical-path engine and its reporting operations.                      *)
(*                                                                         *)
(* Identifiers: the code draws uuid4 strings; here the n-th row inserted   *)
(* into a table has id n, so a row's id is also its SQLite rowid.  A Task  *)
(* object has its id from construction, before add_task stores it, so a    *)
(* dependency may name an id that is stored later, or never.               *)
(*                                                                         *)
(* Dates: a date is a day number; the store keeps date.isoformat() text,   *)
(* modelled as the fixed-width, zero-padded, most-significant-first digit  *)
(* string of the day number, and SQL compares that text.  NULL and None    *)
(* are <<>>; a date object is <<d>>.  A datetime keeps its date only.      *)
(***************************************************************************)
EXTENDS Integers, Sequences, FiniteSets, TLC

VARIABLES
    projects,       \* table projects, in rowid order
    tasks,          \* table tasks, in rowid order
    dependencies,   \* table dependencies: a set of <<task_id, depends_on>>
    today,          \* date.today() / datetime.utcnow().date()
    op,             \* the last call: [name |-> ..., args |-> <<...>>]
    ret             \* what it returned: [raised |-> ..., value |-> ...]

vars == <<projects, tasks, dependencies, today, op, ret>>

----------------------------------------------------------------------------
(* Bounds of the model *)

MaxTasks == 3
MaxDeps == 2
MaxProjects == 2
MaxTicks == 1
MaxAlertTasks == 2
MaxChartTasks == 2

----------------------------------------------------------------------------
(* Values *)

NULL == <<>>
None == 0
\* the day the store is opened on
StartDate == <<10>>

TaskIds == 1..MaxTasks
\* ids a dependency may name: every task id, and one id no task ever has
DepIds == 1..(MaxTasks + 1)
ProjectIds == 1..MaxProjects

\* a date object for day number d, and its day number
Date(d) == <<d>>

Day(date) == date[1]

\* date.isoformat(): fixed width, zero padded, most significant digit first
isoformat(date) == <<Day(date) \div 10, Day(date) % 10>>

fromisoformat(s) == Date(s[1] * 10 + s[2])

\* `x.isoformat() if x else None`, `date.fromisoformat(x) if x else None`
isoformat_or_None(date) == IF date = NULL THEN NULL ELSE isoformat(date)

fromisoformat_or_None(s) == IF s = NULL THEN NULL ELSE fromisoformat(s)

\* SQLite's BINARY collation on TEXT: the first differing character decides,
\* a proper prefix is smaller
TextLess(a, b) ==
    \/ \E i \in 1..Len(a) :
          /\ i <= Len(b)
          /\ a[i] < b[i]
          /\ \A j \in 1..(i - 1) : a[j] = b[j]
    \/ /\ Len(a) < Len(b)
       /\ \A j \in 1..Len(a) : a[j] = b[j]

\* NULL sorted after every value, as ORDER BY ... NULLS LAST would
SqlLessNullsLast(x, y) ==
    \/ x # NULL /\ y = NULL
    \/ x # NULL /\ y # NULL /\ TextLess(x, y)

\* ORDER BY ... ASC on a nullable TEXT column: SQLite sorts NULL before
\* every value
SqlLess(x, y) ==
    \/ x = NULL /\ y # NULL
    \/ x # NULL /\ y # NULL /\ TextLess(x, y)

\* A stable sort of s, less[i, j] telling whether s[i] sorts before s[j]:
\* s[i] goes after every element that is smaller, and after every
\* equivalent element that stands before it in s
StableSort(s, less) ==
    LET Rank(i) == Cardinality({j \in 1..Len(s) :
                       \/ less[j, i]
                       \/ j < i /\ ~less[i, j]}) + 1
    IN  [k \in 1..Len(s) |-> s[CHOOSE i \in 1..Len(s) : Rank(i) = k]]

\* path.reverse() left out
ReverseForgotten(s) == s

\* list.reverse()
Reverse(s) == [i \in 1..Len(s) |-> s[Len(s) + 1 - i]]

Range(s) == {s[i] : i \in 1..Len(s)}

RECURSIVE SumSeq(_)
SumSeq(s) == IF s = <<>> THEN 0 ELSE Head(s) + SumSeq(Tail(s))

Returned(v) == [raised |-> "none", value |-> v]

Raised(e) == [raised |-> e, value |-> NULL]

Call(name, args) == [name |-> name, args |-> args]

----------------------------------------------------------------------------
(* The store *)

Init ==
    /\ projects = <<>>
    /\ tasks = <<>>
    /\ dependencies = {}
    /\ today = StartDate
    /\ op = Call("__init__", <<>>)
    /\ ret = Returned(NULL)

_row_to_task(row, deps) ==
    [id |-> row.id, project_id |-> row.project_id, assignee |-> row.assignee,
     priority |-> row.priority, status |-> row.status,
     due_date |-> fromisoformat_or_None(row.due_date),
     story_points |-> row.story_points, dependencies |-> deps,
     completed_at |-> fromisoformat_or_None(row.completed_at)]

\* SELECT depends_on FROM dependencies WHERE task_id=?
depends_on(task_id) == {e[2] : e \in {x \in dependencies : x[1] = task_id}}

\* ORDER BY priority, due_date
OrderByLess(r1, r2) ==
    \/ r1.priority < r2.priority
    \/ r1.priority = r2.priority /\ SqlLess(r1.due_date, r2.due_date)

get_project_tasks(project_id) ==
    LET found == SelectSeq(tasks, LAMBDA r : r.project_id = project_id)
        rows == StableSort(found,
                    [i \in 1..Len(found), j \in 1..Len(found) |->
                        OrderByLess(found[i], found[j])])
    IN  [i \in 1..Len(rows) |-> _row_to_task(rows[i], depends_on(rows[i].id))]

----------------------------------------------------------------------------
(* Critical path: Kahn's topological sort with longest-path labels *)

\* the guard against orphan dependencies left out
in_by_id_unguarded(dep, keys) == TRUE

\* `if dep in by_id`: only edges between two tasks of the project count
in_by_id(dep, keys) == dep \in keys

\* in_deg and children of the loop over tasks and their dependencies;
\* children[dep] lists the dependents of dep in the order of ts
BuildGraph(ts) ==
    LET ids == [i \in 1..Len(ts) |-> ts[i].id]
        keys == Range(ids)
        by_id(id) == ts[CHOOSE i \in 1..Len(ts) : ts[i].id = id]
    IN  [in_deg |-> [id \in keys |->
                        Cardinality({dep \in by_id(id).dependencies :
                                        in_by_id(dep, keys)})],
         children |-> [dep \in keys |->
                        SelectSeq(ids, LAMBDA c :
                            /\ dep \in by_id(c).dependencies
                            /\ in_by_id(dep, keys))]]

\* `>=` for `>`: a later prerequisite with an equal finish replaces the
\* earlier one
RelaxesOnEqual(finish, earliest_child) == finish >= earliest_child

\* the comparison dropped: the last prerequisite processed always wins
RelaxesAlways(finish, earliest_child) == TRUE

\* `if finish > earliest[child_id]`
Relaxes(finish, earliest_child) == finish > earliest_child

\* the `for child_id in children[tid]` loop, over the children left in cs
RECURSIVE RelaxChildren(_, _, _, _)
RelaxChildren(k, cs, tid, finish) ==
    IF cs = <<>> THEN k
    ELSE LET child_id == Head(cs)
             k1 == IF Relaxes(finish, k.earliest[child_id])
                   THEN [k EXCEPT !.earliest[child_id] = finish,
                                  !.pred[child_id] = tid]
                   ELSE k
             deg == k1.in_deg[child_id] - 1
             k2 == [k1 EXCEPT !.in_deg[child_id] = deg,
                              !.queue = IF deg = 0 THEN Append(@, child_id)
                                        ELSE @]
         IN  RelaxChildren(k2, Tail(cs), tid, finish)

\* the `while queue` loop
RECURSIVE KahnLoop(_, _, _)
KahnLoop(k, children, story_points) ==
    IF k.queue = <<>> THEN k
    ELSE LET tid == Head(k.queue)
             k1 == [k EXCEPT !.queue = Tail(@),
                             !.topo_order = Append(@, tid)]
             finish == k1.earliest[tid] + story_points[tid]
         IN  KahnLoop(RelaxChildren(k1, children[tid], tid, finish),
                      children, story_points)

\* the labels the loop ends with, from the state it starts in
Kahn(ts) ==
    LET ids == [i \in 1..Len(ts) |-> ts[i].id]
        keys == Range(ids)
        by_id(id) == ts[CHOOSE i \in 1..Len(ts) : ts[i].id = id]
        g == BuildGraph(ts)
        story_points == [id \in keys |->
                            by_id(id).story_points]
    IN  KahnLoop([queue |-> SelectSeq(ids, LAMBDA tid : g.in_deg[tid] = 0),
                  topo_order |-> <<>>,
                  earliest |-> [id \in keys |-> 0],
                  pred |-> [id \in keys |-> None],
                  in_deg |-> g.in_deg],
                 g.children, story_points)

\* max(seq, key=...): the first element with the largest key
MaxByKey(seq, key) ==
    seq[CHOOSE i \in 1..Len(seq) :
            /\ \A j \in 1..Len(seq) : key[seq[j]] <= key[seq[i]]
            /\ \A j \in 1..(i - 1) : key[seq[j]] < key[seq[i]]]

\* the `while cur is not None` loop: the path from cur back along pred
RECURSIVE TraceBack(_, _)
TraceBack(cur, pred) ==
    IF cur = None THEN <<>> ELSE <<cur>> \o TraceBack(pred[cur], pred)

\* the fallback sorted with reverse=True
CycleFallbackDescending(ts) ==
    StableSort(ts, [i \in 1..Len(ts), j \in 1..Len(ts) |->
                        ts[i].priority > ts[j].priority])

\* `sorted(tasks, key=lambda t: t.priority)`
CycleFallback(ts) ==
    StableSort(ts, [i \in 1..Len(ts), j \in 1..Len(ts) |->
                        ts[i].priority < ts[j].priority])

\* get_critical_path from the task list on: by_id to the returned path
critical_path(ts) ==
    LET by_id(id) == ts[CHOOSE i \in 1..Len(ts) : ts[i].id = id]
        k == Kahn(ts)
        end_id == MaxByKey(k.topo_order,
                    [tid \in Range(k.topo_order) |->
                        k.earliest[tid] + by_id(tid).story_points])
        path == Reverse(TraceBack(end_id, k.pred))
    IN  IF ts = <<>> THEN <<>>
        ELSE IF Len(k.topo_order) # Len(ts) THEN CycleFallback(ts)
        ELSE [i \in 1..Len(path) |-> by_id(path[i])]

get_critical_path(project_id) == critical_path(get_project_tasks(project_id))

----------------------------------------------------------------------------
(* Operations *)

\* a Task object as a caller builds it; its id is the next free one
Task(project_id, assignee, priority, status, due_date, story_points, deps, completed_at) ==
    [id |-> Len(tasks) + 1, project_id |-> project_id, assignee |-> assignee,
     priority |-> priority, status |-> status, due_date |-> due_date,
     story_points |-> story_points, dependencies |-> deps,
     completed_at |-> completed_at]

\* the row INSERT INTO tasks writes for a Task object
TaskRow(task) ==
    [id |-> task.id, project_id |-> task.project_id,
     assignee |-> task.assignee, priority |-> task.priority,
     status |-> task.status, due_date |-> isoformat_or_None(task.due_date),
     story_points |-> task.story_points,
     completed_at |-> isoformat_or_None(task.completed_at)]

\* add_task(task): the row as the Task object holds it, and one edge per
\* listed dependency (INSERT OR IGNORE: the table is a set)
add_task(task) ==
    LET edges == {<<task.id, dep>> : dep \in task.dependencies}
    IN  /\ Len(tasks) < MaxTasks
        /\ Cardinality(dependencies \cup edges) <= MaxDeps
        /\ tasks' = Append(tasks, TaskRow(task))
        /\ dependencies' = dependencies \cup edges
        /\ op' = Call("add_task", <<task>>)
        /\ ret' = Returned(task)
        /\ UNCHANGED <<projects, today>>

add_dependency(task_id, dep) ==
    /\ Cardinality(dependencies \cup {<<task_id, dep>>}) <= MaxDeps
    /\ dependencies' = dependencies \cup {<<task_id, dep>>}
    /\ op' = Call("add_dependency", <<task_id, dep>>)
    /\ ret' = Returned(NULL)
    /\ UNCHANGED <<projects, tasks, today>>

GetProjectTasks(project_id) ==
    /\ op' = Call("get_project_tasks", <<project_id>>)
    /\ ret' = Returned(get_project_tasks(project_id))
    /\ UNCHANGED <<projects, tasks, dependencies, today>>

GetCriticalPath(project_id) ==
    /\ op' = Call("get_critical_path", <<project_id>>)
    /\ ret' = Returned(get_critical_path(project_id))
    /\ UNCHANGED <<projects, tasks, dependencies, today>>

\* midnight passes: date.today() and datetime.utcnow() move on a day
Midnight ==
    /\ Day(today) < Day(StartDate) + MaxTicks
    /\ today' = Date(Day(today) + 1)
    /\ op' = Call("midnight", <<>>)
    /\ ret' = Returned(NULL)
    /\ UNCHANGED <<projects, tasks, dependencies>>

\* a Project object as create_project builds it
Project(deadline) ==
    [id |-> Len(projects) + 1, status |-> "active", deadline |-> deadline]

create_project(deadline) ==
    LET p == Project(deadline)
    IN  /\ Len(projects) < MaxProjects
        /\ projects' = Append(projects,
                              [id |-> p.id, status |-> p.status,
                               deadline |-> isoformat(p.deadline)])
        /\ op' = Call("create_project", <<deadline>>)
        /\ ret' = Returned(p)
        /\ UNCHANGED <<tasks, dependencies, today>>

_row_to_project(row) ==
    [id |-> row.id, status |-> row.status,
     deadline |-> fromisoformat(row.deadline)]

\* None (NULL here) when no row has the id
get_project(project_id) ==
    IF project_id \in 1..Len(projects)
    THEN _row_to_project(projects[project_id])
    ELSE NULL

\* SELECT * FROM projects WHERE status=? ORDER BY deadline
list_projects(status) ==
    LET found == SelectSeq(projects, LAMBDA r : r.status = status)
        rows == StableSort(found,
                    [i \in 1..Len(found), j \in 1..Len(found) |->
                        TextLess(found[i].deadline, found[j].deadline)])
    IN  [i \in 1..Len(rows) |-> _row_to_project(rows[i])]

\* UPDATE projects SET status=? WHERE id=?; rowcount > 0
update_project_status(project_id, status) ==
    /\ projects' = [i \in 1..Len(projects) |->
                      IF projects[i].id = project_id
                      THEN [projects[i] EXCEPT !.status = status]
                      ELSE projects[i]]
    /\ op' = Call("update_project_status", <<project_id, status>>)
    /\ ret' = Returned(\E i \in 1..Len(projects) : projects[i].id = project_id)
    /\ UNCHANGED <<tasks, dependencies, today>>

\* the timestamp written whatever the status
completed_at_always(status) == isoformat(today)

\* the completed_at update_task_status writes for a status
completed_at_for(status) ==
    IF status = "done" THEN isoformat(today) ELSE NULL

\* UPDATE tasks SET status=?, completed_at=? WHERE id=?; rowcount > 0
update_task_status(task_id, status) ==
    /\ tasks' = [i \in 1..Len(tasks) |->
                    IF tasks[i].id = task_id
                    THEN [tasks[i] EXCEPT !.status = status,
                                          !.completed_at = completed_at_for(status)]
                    ELSE tasks[i]]
    /\ op' = Call("update_task_status", <<task_id, status>>)
    /\ ret' = Returned(\E i \in 1..Len(tasks) : tasks[i].id = task_id)
    /\ UNCHANGED <<projects, dependencies, today>>

----------------------------------------------------------------------------
(* Reports *)

GanttHeader ==
    <<"Task ID", "Title", "Assignee", "Priority", "Status", "Story Points",
      "Due Date", "Dependencies", "Critical Path">>

\* the two cells the wrong way round
CriticalPathCellSwapped(task, cp_ids) ==
    IF task.id \in cp_ids THEN "no" ELSE "YES"

\* "YES" if task.id in cp_ids else "no"
CriticalPathCell(task, cp_ids) == IF task.id \in cp_ids THEN "YES" ELSE "no"

\* the rows export_gantt_csv writes: the header, then one row per task of
\* get_project_tasks (the title, free text, is left out of the model)
export_gantt_csv(project_id) ==
    LET ts == get_project_tasks(project_id)
        cp == get_critical_path(project_id)
        cp_ids == {cp[i].id : i \in 1..Len(cp)}
    IN  IF get_project(project_id) = NULL THEN Raised("ValueError")
        ELSE Returned(<<GanttHeader>> \o
                [i \in 1..Len(ts) |->
                    [task_id |-> ts[i].id,
                     assignee |-> ts[i].assignee,
                     priority |-> ts[i].priority,
                     status |-> ts[i].status,
                     story_points |-> ts[i].story_points,
                     due_date |-> isoformat_or_None(ts[i].due_date),
                     dependencies |-> ts[i].dependencies,
                     critical_path |-> CriticalPathCell(ts[i], cp_ids)]])

ExportGanttCsv(project_id) ==
    /\ op' = Call("export_gantt_csv", <<project_id>>)
    /\ ret' = export_gantt_csv(project_id)
    /\ UNCHANGED <<projects, tasks, dependencies, today>>

\* "overdue" if delta < 0 else ("today" if delta == 0 else "upcoming")
Urgency(delta) ==
    IF delta < 0 THEN "overdue" ELSE IF delta = 0 THEN "today" ELSE "upcoming"

\* the window's last day left out
ProjectIsDueStrict(delta, days_ahead) == delta < days_ahead

\* `if delta <= days_ahead` on an active project
ProjectIsDue(delta, days_ahead) == delta <= days_ahead

\* WHERE status NOT IN ('done','blocked') AND due_date IS NOT NULL
\*   AND due_date <= ?
TaskIsDue(row, horizon_text) ==
    /\ row.status \notin {"done", "blocked"}
    /\ row.due_date # NULL
    /\ ~TextLess(horizon_text, row.due_date)

check_deadlines(days_ahead) ==
    LET horizon == Date(Day(today) + days_ahead)
        active == list_projects("active")
        due_projects == SelectSeq(active, LAMBDA p :
                            ProjectIsDue(Day(p.deadline) - Day(today), days_ahead))
        project_alerts ==
            [i \in 1..Len(due_projects) |->
                LET delta == Day(due_projects[i].deadline) - Day(today)
                IN  [type |-> "project", id |-> due_projects[i].id,
                     deadline |-> isoformat(due_projects[i].deadline),
                     days_remaining |-> delta, urgency |-> Urgency(delta)]]
        rows == SelectSeq(tasks, LAMBDA r : TaskIsDue(r, isoformat(horizon)))
        task_alerts ==
            [i \in 1..Len(rows) |->
                LET delta == Day(fromisoformat(rows[i].due_date)) - Day(today)
                IN  [type |-> "task", id |-> rows[i].id,
                     due_date |-> rows[i].due_date,
                     days_remaining |-> delta, urgency |-> Urgency(delta)]]
        alerts == project_alerts \o task_alerts
    IN  StableSort(alerts,
            [i \in 1..Len(alerts), j \in 1..Len(alerts) |->
                alerts[i].days_remaining < alerts[j].days_remaining])

CheckDeadlines(days_ahead) ==
    /\ op' = Call("check_deadlines", <<days_ahead>>)
    /\ ret' = Returned(check_deadlines(days_ahead))
    /\ UNCHANGED <<projects, tasks, dependencies, today>>

\* round(n / d, 0) for n >= 0, d > 0: to the nearest integer, a tie to the
\* even one (within the bounds no tie occurs)
Round(n, d) ==
    LET q == n \div d
        r == n % d
    IN  IF 2 * r < d THEN q
        ELSE IF 2 * r > d THEN q + 1
        ELSE IF q % 2 = 0 THEN q ELSE q + 1

\* every task with a timestamp counted, done or not
completed_by_day_undone(ts, start, day) ==
    SumSeq([i \in 1..Len(ts) |->
        IF /\ ts[i].completed_at # NULL
           /\ Day(ts[i].completed_at) >= Day(start)
           /\ ts[i].completed_at = day
        THEN ts[i].story_points ELSE 0])

\* completed_by_day[day]: the story points of the done tasks completed on
\* day, when day is not before start
completed_by_day(ts, start, day) ==
    SumSeq([i \in 1..Len(ts) |->
        IF /\ ts[i].status = "done"
           /\ ts[i].completed_at # NULL
           /\ Day(ts[i].completed_at) >= Day(start)
           /\ ts[i].completed_at = day
        THEN ts[i].story_points ELSE 0])

\* the chart rows from day i on, `remaining` being the value before day i;
\* ideal is in hundredths of a story point
RECURSIVE BurndownRows(_, _, _, _, _, _)
BurndownRows(ts, total_points, sprint_days, start, i, remaining) ==
    IF i > sprint_days THEN <<>>
    ELSE LET day == Date(Day(start) + i)
             left == remaining - completed_by_day(ts, start, day)
         IN  <<[day |-> i, date |-> isoformat(day),
                ideal |-> Round(100 * total_points * (sprint_days - i),
                                sprint_days),
                actual |-> left]>>
             \o BurndownRows(ts, total_points, sprint_days, start, i + 1, left)

\* `if total_points == 0: return []`
NothingToChart(total_points) == total_points = 0

calculate_burndown(project_id, sprint_days) ==
    LET ts == get_project_tasks(project_id)
        total_points == SumSeq([i \in 1..Len(ts) |-> ts[i].story_points])
        start == Date(Day(today) - sprint_days)
    IN  IF NothingToChart(total_points) THEN Returned(<<>>)
        ELSE IF sprint_days = 0 THEN Raised("ZeroDivisionError")
        ELSE Returned(BurndownRows(ts, total_points, sprint_days, start, 0,
                                   total_points))

CalculateBurndown(project_id, sprint_days) ==
    /\ op' = Call("calculate_burndown", <<project_id, sprint_days>>)
    /\ ret' = calculate_burndown(project_id, sprint_days)
    /\ UNCHANGED <<projects, tasks, dependencies, today>>

\* pct_done is in tenths of a percent
get_project_stats(project_id) ==
    LET ts == get_project_tasks(project_id)
        total == Len(ts)
        done == Len(SelectSeq(ts, LAMBDA t : t.status = "done"))
        assignees == {ts[i].assignee : i \in 1..Len(ts)}
    IN  [total_tasks |-> total,
         done_tasks |-> done,
         pct_done |-> IF total # 0 THEN Round(done * 1000, total) ELSE 0,
         total_story_points |-> SumSeq([i \in 1..Len(ts) |-> ts[i].story_points]),
         done_story_points |->
            SumSeq([i \in 1..Len(ts) |->
                IF ts[i].status = "done" THEN ts[i].story_points ELSE 0]),
         by_assignee |-> [a \in assignees |->
            SumSeq([i \in 1..Len(ts) |->
                IF ts[i].assignee = a THEN ts[i].story_points ELSE 0])]]

GetProjectStats(project_id) ==
    /\ op' = Call("get_project_stats", <<project_id>>)
    /\ ret' = Returned(get_project_stats(project_id))
    /\ UNCHANGED <<projects, tasks, dependencies, today>>

----------------------------------------------------------------------------
(* The critical-path engine on one project: tasks of any weight, stored in *)
(* any order, each with its dependencies on any ids as add_task stores     *)
(* them                                                                    *)

PathPoints == {0, 1, 2}

PathAddTask ==
    \E story_points \in PathPoints, deps \in SUBSET TaskIds :
        add_task(Task(1, "dev", 1, "todo", NULL, story_points, deps, NULL))

PathGetCriticalPath == GetCriticalPath(1)

NextPath == PathAddTask \/ PathGetCriticalPath

SpecPath == Init /\ [][NextPath]_vars

----------------------------------------------------------------------------
(* The cycle fallback on one project: tasks of any priority, dependency    *)
(* edges between any two ids, a task and itself included                   *)

CyclePriorities == {1, 2}

CycleAddTask ==
    \E priority \in CyclePriorities, deps \in SUBSET TaskIds :
        add_task(Task(1, "dev", priority, "todo", NULL, 1, deps, NULL))

CycleAddDependency ==
    \E task_id \in TaskIds, dep \in TaskIds : add_dependency(task_id, dep)

CycleGetCriticalPath == GetCriticalPath(1)

NextCycle == CycleAddTask \/ CycleAddDependency \/ CycleGetCriticalPath

SpecCycle == Init /\ [][NextCycle]_vars

----------------------------------------------------------------------------
(* The tie-breaks of the critical path on one project: tasks of weight     *)
(* zero or one, a task of weight one being of either of two priorities,    *)
(* each with its dependencies as add_task stores them                      *)

TieGiven == {<<1, 0>>, <<1, 1>>, <<2, 1>>}

TieAddTask ==
    \E given \in TieGiven, deps \in SUBSET TaskIds :
        add_task(Task(1, "dev", given[1], "todo", NULL, given[2], deps, NULL))

TieGetCriticalPath == GetCriticalPath(1)

NextTie == TieAddTask \/ TieGetCriticalPath

SpecTie == Init /\ [][NextTie]_vars

----------------------------------------------------------------------------
(* Dependencies that name no task of the project: tasks of two projects,   *)
(* edges to any task id and to an id no task has                           *)

DanglingProjects == {1, 2}

DanglingAddTask ==
    \E project_id \in DanglingProjects, deps \in SUBSET DepIds :
        add_task(Task(project_id, "dev", 1, "todo", NULL, 1, deps, NULL))

DanglingAddDependency ==
    \E task_id \in TaskIds, dep \in DepIds : add_dependency(task_id, dep)

DanglingGetCriticalPath ==
    \E project_id \in DanglingProjects : GetCriticalPath(project_id)

NextDangling ==
    DanglingAddTask \/ DanglingAddDependency \/ DanglingGetCriticalPath

SpecDangling == Init /\ [][NextDangling]_vars

----------------------------------------------------------------------------
(* The Gantt export of a project that may or may not exist *)

GanttPoints == {1, 2}
GanttDeadline == Date(12)
GanttProjects == {1, 2}

\* the one project, created once
GanttCreateProject == projects = <<>> /\ create_project(GanttDeadline)

GanttAddTask ==
    \E story_points \in GanttPoints, deps \in SUBSET TaskIds :
        add_task(Task(1, "dev", 1, "todo", NULL, story_points, deps, NULL))

GanttAddDependency ==
    \E task_id \in TaskIds, dep \in TaskIds : add_dependency(task_id, dep)

GanttExport == \E project_id \in GanttProjects : ExportGanttCsv(project_id)

NextGantt ==
    GanttCreateProject \/ GanttAddTask \/ GanttAddDependency \/ GanttExport

SpecGantt == Init /\ [][NextGantt]_vars

----------------------------------------------------------------------------
(* Statuses and completion timestamps: every operation that writes the     *)
(* store, a Task object being free in its status and its completed_at      *)

StatusDeadline == Date(12)
StatusProjectStatuses == {"on_hold"}
StatusGiven == {"todo", "done"}
StatusCompletedGiven == {NULL, Date(9)}
StatusSet == {"todo", "done", "blocked"}

StatusCreateProject == create_project(StatusDeadline)

StatusUpdateProjectStatus ==
    \E project_id \in ProjectIds, status \in StatusProjectStatuses :
        update_project_status(project_id, status)

StatusAddTask ==
    \E status \in StatusGiven, completed_at \in StatusCompletedGiven :
        add_task(Task(1, "dev", 1, status, NULL, 1, {}, completed_at))

StatusAddDependency == add_dependency(2, 1)

StatusUpdateTaskStatus ==
    \E task_id \in DepIds, status \in StatusSet :
        update_task_status(task_id, status)

NextStatus ==
    \/ StatusCreateProject
    \/ StatusUpdateProjectStatus
    \/ StatusAddTask
    \/ StatusAddDependency
    \/ StatusUpdateTaskStatus

SpecStatus == Init /\ [][NextStatus]_vars

----------------------------------------------------------------------------
(* The order of get_project_tasks: tasks of two projects, of any priority, *)
(* with and without a due date                                             *)

OrderPriorities == {1, 2}
OrderDueDates == {NULL, Date(9), Date(10)}

OrderAddTask ==
    \E project_id \in ProjectIds, priority \in OrderPriorities,
       due_date \in OrderDueDates :
        add_task(Task(project_id, "dev", priority, "todo", due_date, 1, {},
                      NULL))

OrderGetProjectTasks ==
    \E project_id \in ProjectIds : GetProjectTasks(project_id)

NextOrder == OrderAddTask \/ OrderGetProjectTasks

SpecOrder == Init /\ [][NextOrder]_vars

----------------------------------------------------------------------------
(* Deadline alerts: projects and tasks due before, on and after today,     *)
(* projects that are closed, tasks that are done or blocked                *)

DeadlineDates == {Date(9), Date(10), Date(11)}
DeadlineProjectStatuses == {"completed"}
DeadlineGiven ==
    {<<"todo", NULL>>, <<"todo", Date(9)>>, <<"todo", Date(10)>>,
     <<"todo", Date(11)>>, <<"done", Date(9)>>, <<"blocked", Date(9)>>}
DeadlineDaysAhead == {0, 1}

DeadlineCreateProject ==
    \E deadline \in DeadlineDates : create_project(deadline)

DeadlineUpdateProjectStatus ==
    \E project_id \in ProjectIds, status \in DeadlineProjectStatuses :
        update_project_status(project_id, status)

DeadlineAddTask ==
    /\ Len(tasks) < MaxAlertTasks
    /\ \E given \in DeadlineGiven :
          add_task(Task(1, "dev", 1, given[1], given[2], 1, {}, NULL))

DeadlineCheck == \E days_ahead \in DeadlineDaysAhead : CheckDeadlines(days_ahead)

NextDeadline ==
    \/ DeadlineCreateProject
    \/ DeadlineUpdateProjectStatus
    \/ DeadlineAddTask
    \/ DeadlineCheck

SpecDeadline == Init /\ [][NextDeadline]_vars

----------------------------------------------------------------------------
(* Burndown and statistics: projects with and without a row, tasks of any  *)
(* weight completed before and inside the sprint window, or stored as done *)

ReportDeadline == Date(12)
ReportPoints == {0, 1, 2}
ReportGiven == {<<"todo", NULL>>, <<"done", NULL>>, <<"done", Date(9)>>}
ReportSprintDays == {0, 1, 2}
ReportDaysAhead == {1}

ReportCreateProject == create_project(ReportDeadline)

ReportAddTask ==
    \E story_points \in ReportPoints, given \in ReportGiven :
        add_task(Task(1, "dev", 1, given[1], NULL, story_points, {}, given[2]))

ReportUpdateTaskStatus ==
    \E task_id \in TaskIds : update_task_status(task_id, "done")

ReportBurndown ==
    \E project_id \in ProjectIds, sprint_days \in ReportSprintDays :
        CalculateBurndown(project_id, sprint_days)

ReportStats == \E project_id \in ProjectIds : GetProjectStats(project_id)

ReportDeadlines == \E days_ahead \in ReportDaysAhead : CheckDeadlines(days_ahead)

NextReport ==
    \/ ReportCreateProject
    \/ ReportAddTask
    \/ ReportUpdateTaskStatus
    \/ Midnight
    \/ ReportBurndown
    \/ ReportStats
    \/ ReportDeadlines

SpecReport == Init /\ [][NextReport]_vars

----------------------------------------------------------------------------
(* The burndown chart: tasks of any weight, stored as completed before or *)
(* inside the sprint window or completed by an update on the day it is     *)
(* made, beside completed tasks of another project                         *)

BurndownProjects == {1, 2}
BurndownPoints == {-1, 1, 2}
BurndownGiven ==
    {<<"todo", NULL>>, <<"todo", Date(9)>>, <<"done", NULL>>,
     <<"done", Date(8)>>, <<"done", Date(9)>>}
BurndownSprintDays == {1, 2}

BurndownAddTask ==
    /\ Len(tasks) < MaxChartTasks
    /\ \/ \E story_points \in BurndownPoints, given \in BurndownGiven :
             add_task(Task(1, "dev", 1, given[1], NULL, story_points, {},
                           given[2]))
       \/ add_task(Task(2, "dev", 1, "done", NULL, 2, {}, Date(9)))

BurndownUpdateTaskStatus ==
    \E task_id \in 1..MaxChartTasks : update_task_status(task_id, "done")

BurndownCalculate ==
    \E project_id \in BurndownProjects, sprint_days \in BurndownSprintDays :
        CalculateBurndown(project_id, sprint_days)

NextBurndown ==
    \/ BurndownAddTask
    \/ BurndownUpdateTaskStatus
    \/ Midnight
    \/ BurndownCalculate

SpecBurndown == Init /\ [][NextBurndown]_vars

----------------------------------------------------------------------------
(* What the claims speak of, stated on the tables themselves *)

TasksOf(p) == {id \in 1..Len(tasks) : tasks[id].project_id = p}

\* t depends on d, both tasks of project p
DependsIn(p, t, d) ==
    /\ t \in TasksOf(p)
    /\ d \in TasksOf(p)
    /\ <<t, d>> \in dependencies

\* the dependency chains of project p: sequences of distinct tasks, each
\* after the first depending on the one just before it
Chains(p) ==
    {c \in UNION {[1..n -> TasksOf(p)] : n \in 1..Cardinality(TasksOf(p))} :
        /\ \A i, j \in 1..Len(c) : i # j => c[i] # c[j]
        /\ \A i \in 1..(Len(c) - 1) : DependsIn(p, c[i + 1], c[i])}

\* a chain whose first task depends on its last closes a cycle
HasCycle(p) == \E c \in Chains(p) : DependsIn(p, c[1], c[Len(c)])

Weight(c) == SumSeq([i \in 1..Len(c) |-> tasks[c[i]].story_points])

MaxChainWeight(p) ==
    CHOOSE w \in {Weight(c) : c \in Chains(p)} :
        \A c \in Chains(p) : Weight(c) <= w

PositivePoints(p) == \A id \in TasksOf(p) : tasks[id].story_points > 0

Ids(ts) == [i \in 1..Len(ts) |-> ts[i].id]

Called(name) == op.name = name

\* path is a sequence without repeats, each element after the first listing
\* the one before it as a dependency, the first with no prerequisite in it
IsChainFromRoot(p, path) ==
    /\ Len(path) >= 1
    /\ \A i, j \in 1..Len(path) : i # j => path[i] # path[j]
    /\ \A i \in 1..(Len(path) - 1) : DependsIn(p, path[i + 1], path[i])
    /\ \A i \in 1..Len(path) : ~DependsIn(p, path[1], path[i])

CriticalPathContract(p) ==
    LET path == Ids(ret.value)
    IN  /\ ret.raised = "none"
        /\ IsChainFromRoot(p, path)
        /\ Weight(path) = MaxChainWeight(p)

\* C1 as stated: for every project whose tasks have positive story points
\* and whose dependency edges are acyclic, get_critical_path returns a
\* non-empty chain from a root whose story points sum to the largest
\* weight of any dependency chain of the project.
C1_AsStated ==
    (Called("get_critical_path") /\ PositivePoints(op.args[1])
        /\ ~HasCycle(op.args[1]))
    => CriticalPathContract(op.args[1])

\* C1, amended: the same for every such project that has at least one task;
\* for a project without tasks get_critical_path returns the empty sequence.
C1_CriticalPathIsLongestChain ==
    (Called("get_critical_path") /\ PositivePoints(op.args[1])
        /\ ~HasCycle(op.args[1]))
    => IF TasksOf(op.args[1]) = {}
       THEN ret = Returned(<<>>)
       ELSE CriticalPathContract(op.args[1])

\* a project where the heaviest chain is not the one with the most tasks
\* and not the heaviest single task
C1_Witness ==
    /\ Called("get_critical_path")
    /\ PositivePoints(op.args[1])
    /\ ~HasCycle(op.args[1])
    /\ Cardinality(TasksOf(op.args[1])) = MaxTasks
    /\ Len(ret.value) = 2
    /\ Weight(Ids(ret.value)) = 3

\* C2: whenever the dependency edges among a project's tasks contain a
\* cycle (a task depending on itself included), get_critical_path returns
\* without error all tasks of the project, each exactly once, by ascending
\* priority, ties in get_project_tasks order.
C2_CycleFallback ==
    (Called("get_critical_path") /\ HasCycle(op.args[1]))
    => LET p == op.args[1]
           path == Ids(ret.value)
           order == Ids(get_project_tasks(p))
           Pos(id) == CHOOSE i \in 1..Len(order) : order[i] = id
       IN  /\ ret.raised = "none"
           /\ Range(path) = TasksOf(p)
           /\ Len(path) = Cardinality(TasksOf(p))
           /\ \A i, j \in 1..Len(path) :
                 i < j =>
                    /\ tasks[path[i]].priority <= tasks[path[j]].priority
                    /\ tasks[path[i]].priority = tasks[path[j]].priority
                          => Pos(path[i]) < Pos(path[j])

\* a cycle through two tasks beside a third, the tasks stored against
\* their priority order
C2_Witness ==
    /\ Called("get_critical_path")
    /\ HasCycle(op.args[1])
    /\ ~ \E t \in TasksOf(op.args[1]) : DependsIn(op.args[1], t, t)
    /\ Len(ret.value) = MaxTasks
    /\ ret.value[1].id # 1
    /\ \E i \in 1..(Len(ret.value) - 1) :
          ret.value[i].priority < ret.value[i + 1].priority

\* the project's tasks are exactly a, b, c with a depending on nothing,
\* b on a alone and c on b alone
IsLinearChain(p, a, b, c) ==
    /\ TasksOf(p) = {a, b, c}
    /\ Cardinality({a, b, c}) = 3
    /\ depends_on(a) = {}
    /\ depends_on(b) = {a}
    /\ depends_on(c) = {b}

\* C3 as stated: for a project whose only tasks are a linear chain A, B, C,
\* get_critical_path returns exactly [A, B, C], whatever the story points
\* and whatever the order get_project_tasks lists them in.
C3_AsStated ==
    Called("get_critical_path")
    => \A a, b, c \in TasksOf(op.args[1]) :
          IsLinearChain(op.args[1], a, b, c)
          => Ids(ret.value) = <<a, b, c>>

\* C3, amended: the same whenever the three story points are positive.
C3_LinearChain ==
    (Called("get_critical_path") /\ PositivePoints(op.args[1]))
    => \A a, b, c \in TasksOf(op.args[1]) :
          IsLinearChain(op.args[1], a, b, c)
          => Ids(ret.value) = <<a, b, c>>

\* a chain that get_project_tasks lists last task first, then the first
\* and the middle one, with unequal weights
C3_Witness ==
    /\ Called("get_critical_path")
    /\ PositivePoints(op.args[1])
    /\ IsLinearChain(op.args[1], 2, 3, 1)
    /\ Ids(get_project_tasks(op.args[1])) = <<1, 2, 3>>
    /\ tasks[3].story_points # tasks[2].story_points
    /\ Ids(ret.value) = <<2, 3, 1>>

\* get_project_tasks' list with every dependency id that is not the id of
\* a task of the project removed
WithoutDangling(p) ==
    LET ts == get_project_tasks(p)
    IN  [i \in 1..Len(ts) |->
            [ts[i] EXCEPT !.dependencies = @ \cap TasksOf(p)]]

\* some task of p lists an id that is no task of p
HasDangling(p) == \E t \in TasksOf(p) : depends_on(t) \ TasksOf(p) # {}

\* C4: add_task succeeds when a listed dependency resolves to no task, and
\* get_critical_path returns the sequence it would return with every
\* dependency id that is no task of the project removed; such ids raise no
\* error and do not trigger the cycle fallback.
C4_DanglingDependenciesIgnored ==
    /\ Called("add_task") =>
          /\ ret.raised = "none"
          /\ tasks[Len(tasks)].id = op.args[1].id
          /\ \A dep \in op.args[1].dependencies :
                <<op.args[1].id, dep>> \in dependencies
    /\ Called("get_critical_path") =>
          /\ ret.raised = "none"
          /\ Ids(ret.value) = Ids(critical_path(WithoutDangling(op.args[1])))
          /\ (TasksOf(op.args[1]) # {} /\ ~HasCycle(op.args[1]))
                => IsChainFromRoot(op.args[1], Ids(ret.value))

\* a path of two tasks whose first task lists a task of the other project
C4_Witness ==
    /\ Called("get_critical_path")
    /\ ~HasCycle(op.args[1])
    /\ Len(ret.value) = 2
    /\ (depends_on(ret.value[1].id) \cap (1..Len(tasks)))
          \ TasksOf(op.args[1]) # {}

\* C8: for an existing project export_gantt_csv emits the header row, then
\* exactly one data row per task of the project, and a row's Critical Path
\* cell is "YES" if and only if the task is in the sequence
\* get_critical_path returns for the project and "no" otherwise; in the
\* cycle fallback every row is "YES".
C8_GanttRows ==
    (Called("export_gantt_csv") /\ op.args[1] \in 1..Len(projects))
    => LET p == op.args[1]
           csv == ret.value
           cp == Ids(get_critical_path(p))
       IN  /\ ret.raised = "none"
           /\ Len(csv) = 1 + Cardinality(TasksOf(p))
           /\ csv[1] = GanttHeader
           /\ {csv[i].task_id : i \in 2..Len(csv)} = TasksOf(p)
           /\ \A i \in 2..Len(csv) :
                 /\ csv[i].critical_path \in {"YES", "no"}
                 /\ csv[i].critical_path = "YES" <=> csv[i].task_id \in Range(cp)
           /\ HasCycle(p) => \A i \in 2..Len(csv) : csv[i].critical_path = "YES"

\* an export of a full project without a cycle with a task on the path
\* and a task off it
C8_Witness ==
    /\ Called("export_gantt_csv")
    /\ ret.raised = "none"
    /\ ~HasCycle(op.args[1])
    /\ Len(ret.value) = 1 + MaxTasks
    /\ \E i, j \in 2..Len(ret.value) :
          /\ ret.value[i].critical_path = "YES"
          /\ ret.value[j].critical_path = "no"
          /\ ret.value[j].dependencies # {}

\* C5 as stated: in every reachable state of the store every stored task
\* has a non-null completed_at if and only if its status is "done".
C5_CompletedIffDone ==
    \A id \in 1..Len(tasks) :
        tasks[id].completed_at # NULL <=> tasks[id].status = "done"

\* C6: update_task_status(id, s) on an existing task returns true and
\* leaves that task with status s, with a non-null completed_at when s is
\* "done" and a null one otherwise, whatever the task held before; on an id
\* of no task it returns false and changes no task.
C6_UpdateTaskStatus ==
    [][op'.name = "update_task_status" =>
        LET id == op'.args[1]
            s == op'.args[2]
        IN  IF id \in 1..Len(tasks)
            THEN /\ ret' = Returned(TRUE)
                 /\ Len(tasks') = Len(tasks)
                 /\ tasks'[id].status = s
                 /\ tasks'[id].completed_at # NULL <=> s = "done"
                 /\ \A other \in 1..Len(tasks) :
                       other # id => tasks'[other] = tasks[other]
                 /\ tasks'[id] = [tasks[id] EXCEPT
                                     !.status = tasks'[id].status,
                                     !.completed_at = tasks'[id].completed_at]
            ELSE /\ ret' = Returned(FALSE)
                 /\ tasks' = tasks]_vars

\* a task, stored as done with a timestamp, that an update has left
\* blocked with the timestamp cleared, beside a task still done
C6_Witness ==
    /\ Called("update_task_status")
    /\ ret = Returned(TRUE)
    /\ op.args[2] = "blocked"
    /\ tasks[op.args[1]].status = "blocked"
    /\ tasks[op.args[1]].completed_at = NULL
    /\ \E other \in 1..Len(tasks) :
          tasks[other].status = "done" /\ tasks[other].completed_at # NULL

\* the list holds exactly the tasks of project p, each once
ListsTasksOf(p, ts) ==
    /\ Range(Ids(ts)) = TasksOf(p)
    /\ Len(ts) = Cardinality(TasksOf(p))
    /\ \A i \in 1..Len(ts) : ts[i].project_id = p

\* C7 as stated: get_project_tasks returns exactly the tasks of the project
\* by ascending priority and, within a priority, by ascending due date,
\* the tasks without a due date last.
C7_AsStated ==
    Called("get_project_tasks")
    => LET ts == ret.value
       IN  /\ ListsTasksOf(op.args[1], ts)
           /\ \A i, j \in 1..Len(ts) :
                 i < j =>
                    /\ ts[i].priority <= ts[j].priority
                    /\ ts[i].priority = ts[j].priority =>
                          \/ ts[j].due_date = NULL
                          \/ /\ ts[i].due_date # NULL
                             /\ Day(ts[i].due_date) <= Day(ts[j].due_date)

\* C7, amended: the same order, but the tasks without a due date come
\* first within their priority, before every task that has one.
C7_OrderNullsFirst ==
    Called("get_project_tasks")
    => LET ts == ret.value
       IN  /\ ListsTasksOf(op.args[1], ts)
           /\ \A i, j \in 1..Len(ts) :
                 i < j =>
                    /\ ts[i].priority <= ts[j].priority
                    /\ ts[i].priority = ts[j].priority =>
                          \/ ts[i].due_date = NULL
                          \/ /\ ts[j].due_date # NULL
                             /\ Day(ts[i].due_date) <= Day(ts[j].due_date)

\* three tasks of one priority, stored latest due date first and the one
\* without a due date last, listed with that one first
C7_Witness ==
    /\ Called("get_project_tasks")
    /\ Len(ret.value) = 3
    /\ \A i \in 1..3 : ret.value[i].priority = ret.value[1].priority
    /\ Ids(ret.value) = <<3, 2, 1>>
    /\ ret.value[1].due_date = NULL
    /\ ret.value[2].due_date = Date(9)
    /\ ret.value[3].due_date = Date(10)

\* the day number a stored date text stands for
DayOfText(text) == Day(fromisoformat(text))

\* the projects and the tasks the claim says are alerted
DueProjects(days_ahead) ==
    {p \in 1..Len(projects) :
        /\ projects[p].status = "active"
        /\ DayOfText(projects[p].deadline) - Day(today) <= days_ahead}

DueTasks(days_ahead) ==
    {t \in 1..Len(tasks) :
        /\ tasks[t].status # "done"
        /\ tasks[t].status # "blocked"
        /\ tasks[t].due_date # NULL
        /\ DayOfText(tasks[t].due_date) <= Day(today) + days_ahead}

AlertsOfType(alerts, type) == SelectSeq(alerts, LAMBDA a : a.type = type)

\* C9: check_deadlines(days_ahead) returns one project alert for exactly
\* the active projects whose deadline minus today is at most days_ahead,
\* one task alert for exactly the tasks neither done nor blocked whose due
\* date is set and not later than today + days_ahead, each with urgency
\* "overdue", "today" or "upcoming" as days_remaining is negative, zero or
\* positive, the whole list ascending by days_remaining.
C9_CheckDeadlines ==
    Called("check_deadlines")
    => LET alerts == ret.value
           pa == AlertsOfType(alerts, "project")
           ta == AlertsOfType(alerts, "task")
       IN  /\ ret.raised = "none"
           /\ Len(pa) + Len(ta) = Len(alerts)
           /\ Range(Ids(pa)) = DueProjects(op.args[1])
           /\ Len(pa) = Cardinality(DueProjects(op.args[1]))
           /\ Range(Ids(ta)) = DueTasks(op.args[1])
           /\ Len(ta) = Cardinality(DueTasks(op.args[1]))
           /\ \A i \in 1..Len(pa) :
                 pa[i].days_remaining =
                    DayOfText(projects[pa[i].id].deadline) - Day(today)
           /\ \A i \in 1..Len(ta) :
                 ta[i].days_remaining =
                    DayOfText(tasks[ta[i].id].due_date) - Day(today)
           /\ \A i \in 1..Len(alerts) :
                 alerts[i].urgency =
                    IF alerts[i].days_remaining < 0 THEN "overdue"
                    ELSE IF alerts[i].days_remaining = 0 THEN "today"
                    ELSE "upcoming"
           /\ \A i, j \in 1..Len(alerts) :
                 i < j => alerts[i].days_remaining <= alerts[j].days_remaining

\* a check that alerts an overdue task before a project due at the end of
\* the window, and leaves out an active project beyond the window and a
\* blocked task that is overdue
C9_Witness ==
    /\ Called("check_deadlines")
    /\ \E i, j \in 1..Len(ret.value) :
          /\ i < j
          /\ ret.value[i].type = "task"
          /\ ret.value[i].urgency = "overdue"
          /\ ret.value[j].type = "project"
          /\ ret.value[j].days_remaining = op.args[1]
    /\ \E p \in 1..Len(projects) :
          p \notin DueProjects(op.args[1]) /\ projects[p].status = "active"
    /\ \E t \in 1..Len(tasks) :
          tasks[t].status = "blocked" /\ tasks[t].due_date # NULL

\* C10 as stated: the reports do not fail on empty or degenerate input:
\* calculate_burndown returns a chart, possibly empty, for every project id
\* and every sprint_days >= 0; get_project_stats returns zero counts and
\* pct_done 0 for a project without tasks; check_deadlines returns the
\* empty list on a store without projects and tasks.
C10_ReportsNeverFail ==
    /\ (Called("calculate_burndown") /\ op.args[2] >= 0)
          => ret.raised = "none"
    /\ (Called("get_project_stats") /\ TasksOf(op.args[1]) = {})
          => /\ ret.raised = "none"
             /\ ret.value.total_tasks = 0
             /\ ret.value.done_tasks = 0
             /\ ret.value.pct_done = 0
             /\ ret.value.total_story_points = 0
             /\ ret.value.done_story_points = 0
    /\ (Called("check_deadlines") /\ projects = <<>> /\ tasks = <<>>)
          => ret = Returned(<<>>)

\* the story points of project p as the tasks table holds them
TotalPoints(p) ==
    SumSeq([id \in 1..Len(tasks) |->
        IF tasks[id].project_id = p THEN tasks[id].story_points ELSE 0])

\* the done tasks of p whose stored completion date is a day of lo..hi
CompletedBetween(p, lo, hi) ==
    {id \in TasksOf(p) :
        /\ tasks[id].status = "done"
        /\ tasks[id].completed_at # NULL
        /\ DayOfText(tasks[id].completed_at) \in lo..hi}

\* their summed story points
DonePointsBetween(p, lo, hi) ==
    SumSeq([id \in 1..Len(tasks) |->
        IF id \in CompletedBetween(p, lo, hi)
        THEN tasks[id].story_points ELSE 0])

\* C11: for a project with total story points T > 0 and sprint_days N >= 1
\* calculate_burndown returns N + 1 entries, days 0..N in order over the
\* dates today - N .. today; the actual value of entry i is T minus the
\* story points of the done tasks completed from the window start to day i;
\* a day without completions repeats the value before it, and with
\* non-negative story points the series starts at most at T and never
\* increases.
C11_Burndown ==
    (Called("calculate_burndown") /\ TotalPoints(op.args[1]) > 0
        /\ op.args[2] >= 1)
    => LET p == op.args[1]
           N == op.args[2]
           T == TotalPoints(p)
           start == Day(today) - N
           chart == ret.value
       IN  /\ ret.raised = "none"
           /\ Len(chart) = N + 1
           /\ \A i \in 0..N :
                 /\ chart[i + 1].day = i
                 /\ chart[i + 1].date = isoformat(Date(start + i))
                 /\ chart[i + 1].actual =
                       T - DonePointsBetween(p, start, start + i)
           /\ \A i \in 1..N :
                 CompletedBetween(p, start + i, start + i) = {}
                 => chart[i + 1].actual = chart[i].actual
           /\ (\A id \in TasksOf(p) : tasks[id].story_points >= 0)
                 => /\ chart[1].actual <= T
                    /\ \A i \in 1..N : chart[i + 1].actual <= chart[i].actual

\* a chart of three days that falls on its first day, by a task stored as
\* done, and again on its last, by a task an update has completed
C11_Witness ==
    /\ Called("calculate_burndown")
    /\ ret.raised = "none"
    /\ op.args[2] = 2
    /\ Len(ret.value) = 3
    /\ ret.value[1].actual < TotalPoints(op.args[1])
    /\ ret.value[2].actual = ret.value[1].actual
    /\ ret.value[3].actual < ret.value[2].actual
    /\ \A id \in TasksOf(op.args[1]) : tasks[id].story_points > 0

\* the tasks of p that t depends on
Prereqs(p, t) == {d \in TasksOf(p) : DependsIn(p, t, d)}

\* the largest number of a non-empty set
MaxOf(S) == CHOOSE m \in S : \A n \in S : n <= m

\* the longest-path labels of an acyclic project: a task starts at 0 or
\* when the last of its prerequisites finishes, whichever is later
RECURSIVE EarliestStart(_, _)
EarliestStart(p, t) ==
    MaxOf({0} \cup {EarliestStart(p, d) + tasks[d].story_points :
                        d \in Prereqs(p, t)})

FinishTime(p, t) == EarliestStart(p, t) + tasks[t].story_points

\* the element of S that comes first in seq
FirstOf(seq, S) ==
    seq[CHOOSE i \in 1..Len(seq) :
            /\ seq[i] \in S
            /\ \A j \in 1..(i - 1) : seq[j] \notin S]

\* the finish time of every task of an acyclic project
FinishTimes(p) == [t \in TasksOf(p) |-> FinishTime(p, t)]

\* the tasks of S that finish last, fin being the finish times
Latest(S, fin) == {d \in S : fin[d] = MaxOf({fin[e] : e \in S})}

\* the prerequisites of t that finish last
LatestPrereqs(p, t) == Latest(Prereqs(p, t), FinishTimes(p))

\* the tasks without prerequisite are processed in get_project_tasks
\* order, ts being that list and k the labels of the loop on it
RootsInListOrder(p, ts, k) ==
    LET roots == {t \in TasksOf(p) : Prereqs(p, t) = {}}
    IN  SelectSeq(k.topo_order, LAMBDA t : t \in roots)
           = SelectSeq(Ids(ts), LAMBDA t : t \in roots)

\* the predecessor of t is the first processed of its latest prerequisites
PredIsFirstLatest(p, k, fin, t) ==
    k.pred[t] = FirstOf(k.topo_order, Latest(Prereqs(p, t), fin))

\* the returned path ends at the first processed of the tasks that finish
\* last and runs back along the predecessors to a task without one
EndsAtFirstLatest(p, k, fin) ==
    LET path == Ids(ret.value)
    IN  /\ Len(path) >= 1
        /\ path[Len(path)] = FirstOf(k.topo_order, Latest(TasksOf(p), fin))
        /\ \A i \in 1..(Len(path) - 1) : path[i] = k.pred[path[i + 1]]
        /\ k.pred[path[1]] = None

\* without a resolving edge the path is the first task in
\* get_project_tasks order among those with the largest story points
SingleHeaviest(p, ts) ==
    (\A t \in TasksOf(p) : Prereqs(p, t) = {})
    => LET heaviest == {t \in TasksOf(p) :
                          tasks[t].story_points =
                             MaxOf({tasks[e].story_points : e \in TasksOf(p)})}
       IN  Ids(ret.value) = <<FirstOf(Ids(ts), heaviest)>>

\* C12 as stated: in the acyclic case the tasks without prerequisite are
\* processed in get_project_tasks order, the predecessor of every task
\* that has prerequisites is the first processed prerequisite attaining
\* its maximal earliest start, the path ends at the first task in
\* topological order among those with the maximal finish time, and a
\* project without resolving edges yields the single first task in
\* get_project_tasks order among those with the largest story points.
C12_AsStated ==
    (Called("get_critical_path") /\ ~HasCycle(op.args[1])
        /\ TasksOf(op.args[1]) # {})
    => LET p == op.args[1]
           ts == get_project_tasks(p)
           k == Kahn(ts)
           fin == FinishTimes(p)
       IN  /\ ret.raised = "none"
           /\ RootsInListOrder(p, ts, k)
           /\ \A t \in TasksOf(p) :
                 Prereqs(p, t) # {} => PredIsFirstLatest(p, k, fin, t)
           /\ EndsAtFirstLatest(p, k, fin)
           /\ SingleHeaviest(p, ts)

\* C12, amended: the same, the predecessor being that prerequisite when
\* the task's earliest start is positive; a task whose prerequisites all
\* finish at 0 or before has no predecessor.
C12_TieBreaks ==
    (Called("get_critical_path") /\ ~HasCycle(op.args[1])
        /\ TasksOf(op.args[1]) # {})
    => LET p == op.args[1]
           ts == get_project_tasks(p)
           k == Kahn(ts)
           fin == FinishTimes(p)
       IN  /\ ret.raised = "none"
           /\ RootsInListOrder(p, ts, k)
           /\ \A t \in TasksOf(p) :
                 Prereqs(p, t) # {} =>
                    IF fin[t] - tasks[t].story_points > 0
                    THEN PredIsFirstLatest(p, k, fin, t)
                    ELSE k.pred[t] = None
           /\ EndsAtFirstLatest(p, k, fin)
           /\ SingleHeaviest(p, ts)

\* a path of two tasks whose last task has two prerequisites that finish
\* together, the one listed first by get_project_tasks, though stored
\* second, being its predecessor
C12_Witness ==
    /\ Called("get_critical_path")
    /\ ~HasCycle(op.args[1])
    /\ Len(ret.value) = 2
    /\ Cardinality(LatestPrereqs(op.args[1], ret.value[2].id)) = 2
    /\ \E d \in LatestPrereqs(op.args[1], ret.value[2].id) :
          d < ret.value[1].id

====
